---- MODULE Spec2Model ----
(***************************************************************************)
(* A model of zhyee/atos-go: the Mach-O container's address arithmetic,    *)
(* the byte cursor, the .debug_aranges parser, the CU header walker, the   *)
(* aranges fast path, the symbol-table resolver, Atos and Close.           *)
(*                                                                         *)
(* A uint64 is a tuple of 8 bytes, most significant first, so that the     *)
(* arithmetic keeps its width: Add64 and Sub64 wrap modulo 2^64.           *)
(***************************************************************************)
EXTENDS Integers, Sequences, FiniteSets, TLC

VARIABLES
    mf,      \* the MachFile container (SpecContainer: Spec)
    last,    \* the last operation applied to the container and its outcome
    ar,      \* ParseDebugAranges: the payload and the outcome (SpecAranges)
    cu,      \* GetCUBodyOffset: the section bytes and the outcome (SpecCU)
    fd,      \* the aranges lookup: list, address, outcome (SpecFind)
    st,      \* ResolveNameFromSymTab: table, address, outcome (SpecSymTab)
    br,      \* a bytesReader: data, offset, the last call (SpecReader)
    cli      \* a run of a command line front end (SpecCLI)

vars == <<mf, last, ar, cu, fd, st, br, cli>>

\* a local variable of the code: F evaluated with its parameter bound to v
Bind(v, F(_)) == F(v)

----------------------------------------------------------------------------
(* uint64 arithmetic                                                       *)

Zero64 == <<0, 0, 0, 0, 0, 0, 0, 0>>

Max64 == <<255, 255, 255, 255, 255, 255, 255, 255>>

\* a small natural (< 65536) as a uint64
U(n) == <<0, 0, 0, 0, 0, 0, (n \div 256) % 256, n % 256>>

\* the carry into byte i of a + b, from the less significant bytes
RECURSIVE Carry64(_, _, _)
Carry64(a, b, i) ==
    IF i = 8 THEN 0
    ELSE (a[i + 1] + b[i + 1] + Carry64(a, b, i + 1)) \div 256

\* byte i of a + b
AddByte(a, b, i) == (a[i] + b[i] + Carry64(a, b, i)) % 256

Add64(a, b) ==
    <<AddByte(a, b, 1), AddByte(a, b, 2), AddByte(a, b, 3), AddByte(a, b, 4),
      AddByte(a, b, 5), AddByte(a, b, 6), AddByte(a, b, 7), AddByte(a, b, 8)>>

Not64(a) ==
    <<255 - a[1], 255 - a[2], 255 - a[3], 255 - a[4],
      255 - a[5], 255 - a[6], 255 - a[7], 255 - a[8]>>

Neg64(a) == Add64(Not64(a), U(1))

Sub64(a, b) == Add64(a, Neg64(b))

Lt64(a, b) ==
    \E i \in 1..8 : a[i] < b[i] /\ \A j \in 1..(i - 1) : a[j] = b[j]

Le64(a, b) == a = b \/ Lt64(a, b)

----------------------------------------------------------------------------
(* bytesReader: a cursor is the pair (data, offset); every operation       *)
(* returns the value read, the error and the new offset.  Slicing          *)
(* data[offset:] with offset > len(data) panics in Go.                     *)

brLen(data, off) == Len(data) - off

brReadByte(data, off) ==
    IF off >= Len(data)
    THEN [b |-> 0, err |-> "EOF", off |-> off]
    ELSE [b |-> data[off + 1], err |-> "nil", off |-> off + 1]

\* a mutant of brSkip: a short skip leaves the offset where it was
brSkipNoClamp(data, off, n) ==
    IF off + n > Len(data)
    THEN [n |-> Len(data) - off, err |-> "ErrUnexpectedEOF", off |-> off]
    ELSE [n |-> n, err |-> "nil", off |-> off + n]

brSkip(data, off, n) ==
    IF off + n > Len(data)
    THEN [n |-> Len(data) - off, err |-> "ErrUnexpectedEOF", off |-> Len(data)]
    ELSE [n |-> n, err |-> "nil", off |-> off + n]

brBytes(data, off, n) ==
    IF off + n > Len(data)
    THEN IF off > Len(data)
         THEN [b |-> <<>>, err |-> "panic", off |-> off]
         ELSE [b |-> SubSeq(data, off + 1, Len(data)),
               err |-> "ErrUnexpectedEOF", off |-> Len(data)]
    ELSE IF n < 0
         THEN [b |-> <<>>, err |-> "panic", off |-> off]
         ELSE [b |-> SubSeq(data, off + 1, off + n), err |-> "nil", off |-> off + n]

\* Read(p) with len(p) = k: n = copy(p, r.data[r.offset:])
brRead(data, off, k) ==
    IF off >= Len(data)
    THEN [n |-> 0, err |-> "EOF", off |-> off]
    ELSE Bind(IF k < Len(data) - off THEN k ELSE Len(data) - off, LAMBDA n :
         [n |-> n, err |-> "nil", off |-> off + n])

\* Seek(offset, whence): [ret, err, off]
brSeek(data, off, offset, whence) ==
    IF whence \notin {0, 1, 2}
    THEN [ret |-> off, err |-> "whence", off |-> off]
    ELSE Bind(CASE whence = 0 -> offset
                [] whence = 1 -> off + offset
                [] whence = 2 -> Len(data) + offset, LAMBDA newOff :
         IF newOff < 0
         THEN [ret |-> 0, err |-> "invalid", off |-> off]
         ELSE [ret |-> newOff, err |-> "nil", off |-> newOff])

\* Seek(offset, io.SeekStart)
brSeekStart(data, off, newOff) ==
    IF newOff < 0
    THEN [err |-> "invalid", off |-> off]
    ELSE [err |-> "nil", off |-> newOff]

----------------------------------------------------------------------------
(* encoding/binary: byte-order-aware decoding.  le is TRUE for             *)
(* binary.LittleEndian.  The result of a 32- or 64-bit read is a uint64.   *)

RECURSIVE Reverse(_)
Reverse(s) == IF s = <<>> THEN <<>> ELSE Append(Reverse(Tail(s)), Head(s))

Zeros(n) == SubSeq(<<0, 0, 0, 0, 0, 0, 0, 0, 0, 0, 0, 0, 0, 0, 0, 0, 0, 0>>, 1, n)

\* the bytes b, most significant first, zero-extended to 8 bytes
Widen(b) == Zeros(8 - Len(b)) \o b

Uint16(le, b) == IF le THEN b[1] + 256 * b[2] ELSE b[2] + 256 * b[1]

Uint16w(le, b) == Widen(IF le THEN Reverse(SubSeq(b, 1, 2)) ELSE SubSeq(b, 1, 2))

Uint32(le, b) == Widen(IF le THEN Reverse(SubSeq(b, 1, 4)) ELSE SubSeq(b, 1, 4))

Uint64(le, b) == Widen(IF le THEN Reverse(SubSeq(b, 1, 8)) ELSE SubSeq(b, 1, 8))

IsFF4(b) == b[1] = 255 /\ b[2] = 255 /\ b[3] = 255 /\ b[4] = 255

----------------------------------------------------------------------------
(* ParseDebugAranges.  The outcome is [aranges, err]; err is "nil", the    *)
(* error returned, or "panic" where Go would panic.  On an error the       *)
(* entries parsed so far are returned unsorted.                            *)

DwarfArange(cuOff, segment, address, length) ==
    [CUOffset |-> cuOff, SegmentSelector |-> segment,
     LowPC |-> address, HighPC |-> Add64(address, length)]

\* sort.Slice(aranges, LowPC <): s with e inserted after the entries <= e
RECURSIVE InsertByLowPC(_, _)
InsertByLowPC(s, e) ==
    IF s = <<>> THEN <<e>>
    ELSE IF Lt64(e.LowPC, s[Len(s)].LowPC)
         THEN Append(InsertByLowPC(SubSeq(s, 1, Len(s) - 1), e), s[Len(s)])
         ELSE Append(s, e)

RECURSIVE SortByLowPC(_)
SortByLowPC(s) ==
    IF s = <<>> THEN <<>>
    ELSE InsertByLowPC(SortByLowPC(SubSeq(s, 1, Len(s) - 1)), s[Len(s)])

\* the segment selector of a tuple: sizes other than 1, 2, 4, 8 leave it 0
SegmentValue(le, ss, size) ==
    CASE size = 1 -> Widen(<<ss[1]>>)
      [] size = 2 -> Uint16w(le, ss)
      [] size = 4 -> Uint32(le, ss)
      [] size = 8 -> Uint64(le, ss)
      [] OTHER -> Zero64

\* the (address, length) pair of a tuple read at offset aoff; addr[:8] and
\* addr[8:] of a pair shorter than 16 bytes panic
TupleAddrLen(data, aoff, le, addressSize) ==
    IF addressSize = 4
    THEN [err |-> "nil",
          address |-> Uint32(le, SubSeq(data, aoff + 1, aoff + 4)),
          length |-> Uint32(le, SubSeq(data, aoff + 5, aoff + 8))]
    ELSE IF addressSize >= 8
         THEN [err |-> "nil",
               address |-> Uint64(le, SubSeq(data, aoff + 1, aoff + 8)),
               length |-> Uint64(le, SubSeq(data, aoff + 9, aoff + 16))]
         ELSE [err |-> "panic", address |-> Zero64, length |-> Zero64]

\* a mutant of IsTerminator: the segment selector is not looked at
IsTerminatorNoSegment(segment, address, length) ==
    address = Zero64 /\ length = Zero64

\* segment == 0 && address == 0 && length == 0
IsTerminator(segment, address, length) ==
    segment = Zero64 /\ address = Zero64 /\ length = Zero64

\* the tuple loop of one unit, from offset off
RECURSIVE ParseTuples(_, _, _, _, _, _, _)
ParseTuples(data, off, le, cuOff, addressSize, segmentSelectorSize, acc) ==
    Bind(IF segmentSelectorSize > 0
         THEN brBytes(data, off, segmentSelectorSize)
         ELSE [b |-> <<>>, err |-> "nil", off |-> off], LAMBDA ss :
    IF ss.err # "nil" THEN [aranges |-> acc, err |-> ss.err, off |-> ss.off]
    ELSE
    Bind(SegmentValue(le, ss.b, segmentSelectorSize), LAMBDA segment :
    Bind(brBytes(data, ss.off, addressSize * 2), LAMBDA addr :
    IF addr.err # "nil" THEN [aranges |-> acc, err |-> addr.err, off |-> addr.off]
    ELSE
    Bind(TupleAddrLen(data, ss.off, le, addressSize), LAMBDA al :
    IF al.err # "nil" THEN [aranges |-> acc, err |-> al.err, off |-> addr.off]
    ELSE IF IsTerminator(segment, al.address, al.length)
    THEN [aranges |-> acc, err |-> "nil", off |-> addr.off]
    ELSE ParseTuples(data, addr.off, le, cuOff, addressSize, segmentSelectorSize,
                     Append(acc, DwarfArange(cuOff, segment, al.address,
                                             al.length)))))))

\* the outcome of ParseUnitHeader before the first tuple is reached
NoHeader(err, skip, off) ==
    [err |-> err, skip |-> skip, off |-> off, le |-> FALSE,
     cuOff |-> Zero64, addressSize |-> 0, segmentSelectorSize |-> 0]

\* the header of the unit starting at startOffset, up to the first tuple:
\* [err, skip, off, le, cuOff, addressSize, segmentSelectorSize]
ParseUnitHeader(data, startOffset) ==
    Bind(brBytes(data, startOffset, 4), LAMBDA len4 :
    IF len4.err # "nil" THEN NoHeader(len4.err, FALSE, len4.off)
    ELSE
    Bind(IsFF4(len4.b), LAMBDA isDWARF64 :
    Bind(IF isDWARF64 THEN brBytes(data, len4.off, 8) ELSE len4, LAMBDA unitLen :
    IF unitLen.err # "nil" THEN NoHeader(unitLen.err, FALSE, unitLen.off)
    ELSE
    Bind(brBytes(data, unitLen.off, 2), LAMBDA ver :
    IF ver.err # "nil" THEN NoHeader(ver.err, FALSE, ver.off)
    ELSE
    Bind(ver.b[1] > 0, LAMBDA le :
    IF (IF isDWARF64 THEN Uint64(le, unitLen.b) ELSE Uint32(le, unitLen.b)) = Zero64
    THEN NoHeader("nil", TRUE, ver.off)
    ELSE IF Uint16(le, ver.b) # 2 THEN NoHeader("version", FALSE, ver.off)
    ELSE
    Bind(brBytes(data, ver.off, IF isDWARF64 THEN 8 ELSE 4), LAMBDA debugOff :
    IF debugOff.err # "nil" THEN NoHeader(debugOff.err, FALSE, debugOff.off)
    ELSE
    Bind(brReadByte(data, debugOff.off), LAMBDA addSize :
    IF addSize.err # "nil" THEN NoHeader(addSize.err, FALSE, addSize.off)
    ELSE
    Bind(brReadByte(data, addSize.off), LAMBDA selectorSize :
    IF selectorSize.err # "nil"
    THEN NoHeader(selectorSize.err, FALSE, selectorSize.off)
    ELSE
    Bind(selectorSize.b + addSize.b * 2, LAMBDA tupleSize :
    IF tupleSize = 0 THEN NoHeader("panic", FALSE, selectorSize.off)
    ELSE
    Bind((selectorSize.off - startOffset) % tupleSize, LAMBDA remain :
    Bind(IF remain # 0
         THEN brSkip(data, selectorSize.off, tupleSize - remain)
         ELSE [n |-> 0, err |-> "nil", off |-> selectorSize.off], LAMBDA pad :
    [err |-> pad.err, skip |-> FALSE, off |-> pad.off, le |-> le,
     cuOff |-> IF isDWARF64 THEN Uint64(le, debugOff.b) ELSE Uint32(le, debugOff.b),
     addressSize |-> addSize.b,
     segmentSelectorSize |-> selectorSize.b])))))))))))

\* the loop over the units: for br.Len() > 0
RECURSIVE ParseUnits(_, _, _)
ParseUnits(data, off, acc) ==
    IF brLen(data, off) <= 0
    THEN [aranges |-> SortByLowPC(acc), err |-> "nil"]
    ELSE
    Bind(ParseUnitHeader(data, off), LAMBDA h :
    IF h.err # "nil" THEN [aranges |-> acc, err |-> h.err]
    ELSE IF h.skip THEN ParseUnits(data, h.off, acc)
    ELSE
    Bind(ParseTuples(data, h.off, h.le, h.cuOff, h.addressSize,
                     h.segmentSelectorSize, acc), LAMBDA t :
    IF t.err # "nil" THEN [aranges |-> t.aranges, err |-> t.err]
    ELSE ParseUnits(data, t.off, t.aranges)))

ParseDebugAranges(data) ==
    IF brLen(data, 0) < 6
    THEN [aranges |-> <<>>, err |-> "tooShort"]
    ELSE ParseUnits(data, 0, <<>>)

----------------------------------------------------------------------------
(* The payloads ParseDebugAranges is run on.  A payload is described by a  *)
(* byte order, an address size, a segment selector size and a sequence of  *)
(* items: a tuple kind, or "end" for the (0, 0, 0) tuple that ends a unit. *)
(* A unit header is written at the start and after every "end" that has    *)
(* items after it; a payload whose last item is not "end" is truncated.    *)

MaxItems == 4

RECURSIVE SeqsUpTo(_, _)
SeqsUpTo(S, n) ==
    IF n = 0 THEN {<<>>}
    ELSE LET shorter == SeqsUpTo(S, n - 1)
         IN  shorter \cup {Append(s, x) : s \in {t \in shorter : Len(t) = n - 1}, x \in S}

TupleKinds(segSize) ==
    {"norm", "zlen", "wrap"} \cup (IF segSize > 0 THEN {"seg"} ELSE {})

\* the largest address of the given size
MaxAddr(addrSize) == Zeros(8 - addrSize) \o SubSeq(Max64, 1, addrSize)

\* the (segment, address, length) of a tuple kind
TupleOf(kind, addrSize) ==
    CASE kind = "norm" -> [segment |-> Zero64, address |-> U(1), length |-> U(2)]
      [] kind = "zlen" -> [segment |-> Zero64, address |-> U(3), length |-> Zero64]
      [] kind = "wrap" -> [segment |-> Zero64, address |-> MaxAddr(addrSize),
                           length |-> U(2)]
      [] kind = "seg"  -> [segment |-> U(1), address |-> Zero64, length |-> Zero64]
      [] kind = "end"  -> [segment |-> Zero64, address |-> Zero64, length |-> Zero64]

\* the n-byte encoding of the uint64 v
EncN(le, v, n) ==
    LET be == SubSeq(v, 9 - n, 8) IN IF le THEN Reverse(be) ELSE be

EncTuple(le, addrSize, segSize, t) ==
    EncN(le, t.segment, segSize) \o EncN(le, t.address, addrSize)
        \o EncN(le, t.length, addrSize)

RECURSIVE EncTuples(_, _, _, _)
EncTuples(le, addrSize, segSize, tuples) ==
    IF tuples = <<>> THEN <<>>
    ELSE EncTuple(le, addrSize, segSize, Head(tuples))
             \o EncTuples(le, addrSize, segSize, Tail(tuples))

\* the .debug_info offset written in the header of the unit-th unit
UnitCUOffset(unit) == U(300 * (unit - 1) + 11)

\* the index of the first "end" of items, or Len(items) when there is none
RECURSIVE FirstEnd(_, _)
FirstEnd(items, i) ==
    IF i > Len(items) THEN Len(items)
    ELSE IF items[i] = "end" THEN i ELSE FirstEnd(items, i + 1)

\* one DWARF32 version 2 unit for the CU at cuOff, holding the given tuples
EncUnit(le, addrSize, segSize, cuOff, tuples) ==
    Bind(segSize + 2 * addrSize, LAMBDA tupleSize :
    Bind(Zeros((tupleSize - (12 % tupleSize)) % tupleSize)
             \o EncTuples(le, addrSize, segSize, tuples), LAMBDA body :
    EncN(le, U(8 + Len(body)), 4) \o EncN(le, U(2), 2)
        \o EncN(le, cuOff, 4) \o <<addrSize, segSize>> \o body))

RECURSIVE EncPayload(_, _, _, _, _)
EncPayload(le, addrSize, segSize, unit, items) ==
    IF items = <<>> THEN <<>>
    ELSE LET e == FirstEnd(items, 1)
         IN  EncUnit(le, addrSize, segSize, UnitCUOffset(unit),
                     [i \in 1..e |-> TupleOf(items[i], addrSize)])
                 \o EncPayload(le, addrSize, segSize, unit + 1,
                               SubSeq(items, e + 1, Len(items)))

ArInputs ==
    { [le |-> le, addrSize |-> a, segSize |-> g, items |-> items] :
        le \in BOOLEAN, a \in {4, 8}, g \in {0, 1},
        items \in SeqsUpTo({"norm", "zlen", "wrap", "seg", "end"}, MaxItems) }

ArInit ==
    \E in \in ArInputs :
        /\ \A i \in 1..Len(in.items) :
               in.items[i] \in TupleKinds(in.segSize) \cup {"end"}
        /\ ar = [in |-> in,
                 data |-> EncPayload(in.le, in.addrSize, in.segSize, 1, in.items),
                 done |-> FALSE,
                 out |-> [aranges |-> <<>>, err |-> "nil"]]

\* aranges, err := ParseDebugAranges(newBytesReader(data))
ArParse ==
    /\ ~ar.done
    /\ ar' = [ar EXCEPT !.done = TRUE, !.out = ParseDebugAranges(ar.data)]
    /\ UNCHANGED <<mf, last, cu, fd, st, br, cli>>

Idle == [idle |-> TRUE]

InitAranges ==
    ArInit /\ mf = Idle /\ last = Idle /\ cu = Idle /\ fd = Idle /\ st = Idle
        /\ br = Idle /\ cli = Idle

NextAranges == ArParse

SpecAranges == InitAranges /\ [][NextAranges]_vars

ArDone == ar # Idle /\ ar.done

\* s and t hold the same entries the same number of times
SameBag(s, t) ==
    /\ Len(s) = Len(t)
    /\ \A i \in 1..Len(s) :
           Cardinality({j \in 1..Len(s) : s[j] = s[i]})
               = Cardinality({j \in 1..Len(t) : t[j] = s[i]})

\* the tuples of the payload's units, each with its unit's CUOffset
RECURSIVE TuplesBeforeEnd(_, _, _)
TuplesBeforeEnd(items, unit, addrSize) ==
    IF items = <<>> THEN <<>>
    ELSE IF Head(items) = "end"
         THEN TuplesBeforeEnd(Tail(items), unit + 1, addrSize)
         ELSE LET t == TupleOf(Head(items), addrSize)
              IN  <<[CUOffset |-> UnitCUOffset(unit), SegmentSelector |-> t.segment,
                     LowPC |-> t.address, HighPC |-> Add64(t.address, t.length)]>>
                      \o TuplesBeforeEnd(Tail(items), unit, addrSize)

\* C8: every ArangeEntry produced by ParseDebugAranges has LowPC < HighPC.
C8_LowBelowHigh ==
    ArDone => \A i \in 1..Len(ar.out.aranges) :
                  Lt64(ar.out.aranges[i].LowPC, ar.out.aranges[i].HighPC)

\* C10: the entries emitted are exactly the tuples that precede each unit's
\* (0, 0, 0) tuple, with that unit's CUOffset; the (0, 0, 0) tuple is never
\* emitted and the next unit is parsed from the header that follows it.
C10_TuplesBeforeTerminator ==
    ArDone =>
        /\ SameBag(ar.out.aranges,
                   TuplesBeforeEnd(ar.in.items, 1, ar.in.addrSize))
        /\ \A i \in 1..Len(ar.out.aranges) :
               ~(/\ ar.out.aranges[i].SegmentSelector = Zero64
                 /\ ar.out.aranges[i].LowPC = Zero64
                 /\ ar.out.aranges[i].HighPC = Zero64)

\* two terminated units, the second holding a tuple with address and length 0
\* in a nonzero segment, parsed without error
C10_Witness ==
    /\ ArDone
    /\ ar.in.items = <<"norm", "end", "seg", "end">>
    /\ ar.out.err = "nil"
    /\ Len(ar.out.aranges) = 2

(* The payloads of one version 2 unit whose header names any address size  *)
(* and segment selector size, followed by n bytes that are all 0 or all 1. *)

MaxSize == 9

MaxFill == 24

SizesInit ==
    \E le \in BOOLEAN, a \in 0..MaxSize, g \in {0, 1, 2, 3, 4, 8},
       fill \in {0, 1}, n \in 0..MaxFill :
        ar = [in |-> [le |-> le, addrSize |-> a, segSize |-> g, fill |-> fill, n |-> n],
              data |-> EncN(le, U(8 + n), 4) \o EncN(le, U(2), 2)
                           \o EncN(le, U(11), 4) \o <<a, g>> \o [i \in 1..n |-> fill],
              done |-> FALSE,
              out |-> [aranges |-> <<>>, err |-> "nil"]]

InitSizes ==
    SizesInit /\ mf = Idle /\ last = Idle /\ cu = Idle /\ fd = Idle /\ st = Idle
        /\ br = Idle /\ cli = Idle

NextSizes == ArParse

SpecSizes == InitSizes /\ [][NextSizes]_vars

\* C19: for every payload ParseDebugAranges returns normally, with no error
\* or with a truncation or unsupported-version error: no address size or
\* segment selector size makes it crash.
C19_NoCrash ==
    ArDone => ar.out.err \in {"nil", "ErrUnexpectedEOF", "EOF", "version", "tooShort"}

----------------------------------------------------------------------------
(* GetCUBodyOffset.  The outcome is [off, err].                            *)

\* int64(cuOffset) as the offset handed to Seek: a value with the top bit
\* set is negative, a value beyond 16 bits is past the end of any section
\* of the model
SeekOffsetOf(v) ==
    IF v[1] >= 128 THEN -1
    ELSE IF \A i \in 1..6 : v[i] = 0 THEN v[7] * 256 + v[8]
    ELSE 65536

\* a mutant of UnitTypeSkip: the type offset of a type unit is not skipped
UnitTypeSkipNoTypeOffset(unitType, isDWARF64) ==
    IF unitType \in {2, 4, 5, 6} THEN 8 ELSE 0

\* switch unitType: the bytes that follow the common header fields
UnitTypeSkip(unitType, isDWARF64) ==
    CASE unitType \in {4, 5} -> 8
      [] unitType \in {2, 6} -> 8 + (IF isDWARF64 THEN 8 ELSE 4)
      [] OTHER -> 0

GetCUBodyOffset(cuOffset, data) ==
    Bind(brSeekStart(data, 0, SeekOffsetOf(cuOffset)), LAMBDA seek :
    IF seek.err # "nil" THEN [off |-> 0, err |-> seek.err]
    ELSE
    Bind(brBytes(data, seek.off, 4), LAMBDA first4B :
    IF first4B.err # "nil" THEN [off |-> 0, err |-> first4B.err]
    ELSE
    Bind(IsFF4(first4B.b), LAMBDA isDWARF64 :
    Bind(IF isDWARF64 THEN brSkip(data, first4B.off, 8)
         ELSE [n |-> 0, err |-> "nil", off |-> first4B.off], LAMBDA len8 :
    IF len8.err # "nil" THEN [off |-> 0, err |-> len8.err]
    ELSE
    Bind(brBytes(data, len8.off, 2), LAMBDA verBytes :
    IF verBytes.err # "nil" THEN [off |-> 0, err |-> verBytes.err]
    ELSE
    Bind(Uint16(verBytes.b[1] # 0, verBytes.b), LAMBDA version :
    IF version < 2 \/ version > 5 THEN [off |-> 0, err |-> "version"]
    ELSE
    Bind(IF version >= 5 THEN brReadByte(data, verBytes.off)
         ELSE [b |-> 0, err |-> "nil", off |-> verBytes.off], LAMBDA ut :
    IF ut.err # "nil" THEN [off |-> 0, err |-> ut.err]
    ELSE
    Bind((IF version >= 5 THEN 1 ELSE 0) + (IF isDWARF64 THEN 8 ELSE 4)
             + (IF version < 5 THEN 1 ELSE 0) + UnitTypeSkip(ut.b, isDWARF64),
         LAMBDA skipBytes :
    Bind(brSkip(data, ut.off, skipBytes), LAMBDA skip :
    IF skip.err # "nil" THEN [off |-> 0, err |-> skip.err]
    ELSE [off |-> skip.off, err |-> "nil"])))))))))

(* The CU headers GetCUBodyOffset is run on: a .debug_info section with    *)
(* junk before the header at offset h, the header of a unit of the given   *)
(* version, format and unit type, laid out as DWARF 2-5 lays it out, and   *)
(* the first byte of the body (the root DIE's abbreviation code).          *)

MaxHeaderOffset == 2

\* the fields that follow the version field
EncCUFields(le, is64, version, unitType) ==
    LET offLen == IF is64 THEN 8 ELSE 4
        abbrev == EncN(le, U(7), offLen)
        extra == CASE unitType \in {4, 5} -> EncN(le, U(513), 8)
                   [] unitType \in {2, 6} -> EncN(le, U(513), 8) \o EncN(le, U(29), offLen)
                   [] OTHER -> <<>>
    IN  IF version >= 5
        THEN <<unitType, 8>> \o abbrev \o extra
        ELSE abbrev \o <<8>>

EncCUHeader(le, is64, version, unitType, bodyLen) ==
    Bind(EncN(le, U(version), 2) \o EncCUFields(le, is64, version, unitType),
         LAMBDA rest :
    IF is64
    THEN <<255, 255, 255, 255>> \o EncN(le, U(Len(rest) + bodyLen), 8) \o rest
    ELSE EncN(le, U(Len(rest) + bodyLen), 4) \o rest)

CuInit ==
    \E h \in 0..MaxHeaderOffset, le \in BOOLEAN, is64 \in BOOLEAN,
       version \in 2..5, unitType \in 0..6 :
        cu = [h |-> h, le |-> le, is64 |-> is64, version |-> version,
              unitType |-> unitType,
              data |-> [i \in 1..h |-> 170]
                           \o EncCUHeader(le, is64, version, unitType, 1) \o <<17>>,
              done |-> FALSE,
              out |-> [off |-> 0, err |-> "nil"]]

\* cuBodyOff, err := GetCUBodyOffset(cuHeaderOff, newBytesReader(secData))
CuWalk ==
    /\ ~cu.done
    /\ cu' = [cu EXCEPT !.done = TRUE, !.out = GetCUBodyOffset(U(cu.h), cu.data)]
    /\ UNCHANGED <<mf, last, ar, fd, st, br, cli>>

InitCU ==
    CuInit /\ mf = Idle /\ last = Idle /\ ar = Idle /\ fd = Idle /\ st = Idle
        /\ br = Idle /\ cli = Idle

NextCU == CuWalk

SpecCU == InitCU /\ [][NextCU]_vars

CuDone == cu # Idle /\ cu.done

\* C9: for a header at offset h, version 2..5, DWARF32 or DWARF64 and (for
\* version 5) unit type 0..6, GetCUBodyOffset returns
\* h + (4 | 12) + 2 + (1 if v >= 5) + 1 + (4 | 8) + extra, extra being 8 for
\* types 4, 5, and 8 + (4 | 8) for types 2, 6, and 0 otherwise and below
\* version 5; the cursor ends there, which is where the body starts.
C9_BodyOffset ==
    CuDone =>
        LET offLen == IF cu.is64 THEN 8 ELSE 4
            extra == IF cu.version < 5 THEN 0
                     ELSE IF cu.unitType \in {4, 5} THEN 8
                     ELSE IF cu.unitType \in {2, 6} THEN 8 + offLen
                     ELSE 0
            expected == cu.h + (IF cu.is64 THEN 12 ELSE 4) + 2
                            + (IF cu.version >= 5 THEN 1 ELSE 0) + 1 + offLen + extra
        IN  /\ cu.out.err = "nil"
            /\ cu.out.off = expected
            /\ cu.out.off = Len(cu.data) - 1
            /\ cu.data[cu.out.off + 1] = 17

\* a DWARF64 version 5 type unit behind two bytes of junk
C9_Witness ==
    /\ CuDone
    /\ cu.h = 2 /\ cu.is64 /\ cu.version = 5 /\ cu.unitType = 2
    /\ cu.out.off = 2 + 12 + 2 + 1 + 1 + 8 + 16

----------------------------------------------------------------------------
(* The aranges lookup of FastLocateCUEntry: sort.Find over debugAranges.   *)
(* Indices are 0-based as in the code; the list is a 1-based sequence.     *)

\* the comparison function handed to sort.Find
ArangeCmp(aranges, i, addr) ==
    IF Le64(aranges[i + 1].LowPC, addr) /\ Le64(addr, aranges[i + 1].HighPC) THEN 0
    ELSE IF Lt64(addr, aranges[i + 1].LowPC) THEN -1
    ELSE 1

\* sort.Find's loop: the smallest index in [i, j) whose cmp is <= 0
RECURSIVE FindLoop(_, _, _, _)
FindLoop(aranges, addr, i, j) ==
    IF i < j
    THEN LET h == (i + j) \div 2
         IN  IF ArangeCmp(aranges, h, addr) > 0
             THEN FindLoop(aranges, addr, h + 1, j)
             ELSE FindLoop(aranges, addr, i, h)
    ELSE i

\* idx, found := sort.Find(len(f.debugAranges), cmp)
FindArange(aranges, addr) ==
    LET i == FindLoop(aranges, addr, 0, Len(aranges))
    IN  [idx |-> i,
         found |-> i < Len(aranges) /\ ArangeCmp(aranges, i, addr) = 0]

(* The lists the lookup is run on: up to MaxAranges entries with           *)
(* LowPC < HighPC <= MaxPC, ascending by LowPC; they may overlap, nest     *)
(* or touch.                                                               *)

MaxAranges == 3

MaxPC == 5

FdRanges == {r \in (0..MaxPC) \X (0..MaxPC) : r[1] < r[2]}

FdInit ==
    \E rs \in SeqsUpTo(FdRanges, MaxAranges), a \in 0..MaxPC :
        /\ \A i \in 1..(Len(rs) - 1) : rs[i][1] <= rs[i + 1][1]
        /\ fd = [aranges |-> [i \in 1..Len(rs) |->
                                 [CUOffset |-> U(300 * (i - 1) + 11),
                                  SegmentSelector |-> Zero64,
                                  LowPC |-> U(rs[i][1]), HighPC |-> U(rs[i][2])]],
                 addr |-> U(a),
                 done |-> FALSE,
                 out |-> [idx |-> 0, found |-> FALSE]]

FdFind ==
    /\ ~fd.done
    /\ fd' = [fd EXCEPT !.done = TRUE, !.out = FindArange(fd.aranges, fd.addr)]
    /\ UNCHANGED <<mf, last, ar, cu, st, br, cli>>

InitFind ==
    FdInit /\ mf = Idle /\ last = Idle /\ ar = Idle /\ cu = Idle /\ st = Idle
        /\ br = Idle /\ cli = Idle

NextFind == FdFind

SpecFind == InitFind /\ [][NextFind]_vars

FdDone == fd # Idle /\ fd.done

Contains(e, addr) == Le64(e.LowPC, addr) /\ Le64(addr, e.HighPC)

\* C5: on a list ascending by LowPC the lookup reports found, with an entry
\* that contains addr, whenever some entry contains addr, and not found only
\* when none does.
C5_FoundIffContained ==
    FdDone =>
        /\ fd.out.found <=> \E i \in 1..Len(fd.aranges) : Contains(fd.aranges[i], fd.addr)
        /\ fd.out.found => Contains(fd.aranges[fd.out.idx + 1], fd.addr)

----------------------------------------------------------------------------
(* ResolveNameFromSymTab over the symbol table OpenMachO builds.           *)

\* sort.Search's loop: the smallest index in [i, j) whose Value <= addr
RECURSIVE SearchLoop(_, _, _, _)
SearchLoop(symbolTable, addr, i, j) ==
    IF i < j
    THEN LET h == (i + j) \div 2
         IN  IF ~Le64(symbolTable[h + 1].Value, addr)
             THEN SearchLoop(symbolTable, addr, h + 1, j)
             ELSE SearchLoop(symbolTable, addr, i, h)
    ELSE i

\* symbol.Sect-1 in uint8 arithmetic, as a 0-based index
SectIndex(sect) == (sect + 255) % 256

\* symbol.Type&0x0e != 0x0e
NotNSect(type) == (type \div 2) % 8 # 7

ResolveNameFromSymTab(symbolTable, sections, addr) ==
    LET idx == SearchLoop(symbolTable, addr, 0, Len(symbolTable))
    IN  IF idx >= Len(symbolTable) THEN [name |-> "", err |-> "noEntry"]
        ELSE
        LET symbol == symbolTable[idx + 1]
        IN  IF SectIndex(symbol.Sect) >= Len(sections)
            THEN [name |-> "", err |-> "panic"]
            ELSE IF \/ sections[SectIndex(symbol.Sect) + 1].Seg # "__TEXT"
                    \/ sections[SectIndex(symbol.Sect) + 1].Name # "__text"
            THEN [name |-> "", err |-> "notText"]
            ELSE IF NotNSect(symbol.Type)
            THEN [name |-> "", err |-> "notNSect"]
            ELSE [name |-> symbol.Name, err |-> "nil"]

\* sort.Slice(mf.symbolTable, Value >=): the orders of syms that descend by
\* Value; the order of entries of equal Value is not specified
DescendingOrders(syms) ==
    {p \in [1..Len(syms) -> 1..Len(syms)] :
        /\ \A i, j \in 1..Len(syms) : i # j => p[i] # p[j]
        /\ \A i \in 1..(Len(syms) - 1) : Le64(syms[p[i + 1]].Value, syms[p[i]].Value)}

(* The symbol tables the resolver is run on: up to MaxSyms nlist entries   *)
(* in file order, over a slice with the sections __TEXT,__text and         *)
(* __DATA,__data.  An entry is a function of __text (N_SECT | N_EXT), a    *)
(* variable of __data, a debugging (stab) entry of __text or an absolute   *)
(* symbol (section 0), or an entry naming a section the file does not     *)
(* have.                                                                   *)

MaxSyms == 3

MaxValue == 3

StSections ==
    <<[Seg |-> "__TEXT", Name |-> "__text"], [Seg |-> "__DATA", Name |-> "__data"]>>

SymOf(kind, value, i) ==
    [Name |-> <<kind, i>>, Value |-> U(value),
     Sect |-> CASE kind = "text" -> 1 [] kind = "data" -> 2
                [] kind = "stab" -> 1 [] kind = "abs" -> 0 [] kind = "far" -> 9,
     Type |-> CASE kind = "text" -> 15 [] kind = "data" -> 15
                [] kind = "stab" -> 36 [] kind = "abs" -> 3 [] kind = "far" -> 15]

StInit ==
    \E ks \in SeqsUpTo({"text", "data", "stab", "abs", "far"} \X (1..MaxValue), MaxSyms),
       a \in 0..(MaxValue + 1) :
        LET syms == [i \in 1..Len(ks) |-> SymOf(ks[i][1], ks[i][2], i)]
        IN  \E p \in DescendingOrders(syms) :
                st = [symbolTable |-> [i \in 1..Len(syms) |-> syms[p[i]]],
                      Sections |-> StSections,
                      addr |-> U(a),
                      done |-> FALSE,
                      out |-> [name |-> "", err |-> "nil"]]

StResolve ==
    /\ ~st.done
    /\ st' = [st EXCEPT !.done = TRUE,
                        !.out = ResolveNameFromSymTab(st.symbolTable, st.Sections,
                                                      st.addr)]
    /\ UNCHANGED <<mf, last, ar, cu, fd, br, cli>>

InitSymTab ==
    StInit /\ mf = Idle /\ last = Idle /\ ar = Idle /\ cu = Idle /\ fd = Idle
        /\ br = Idle /\ cli = Idle

NextSymTab == StResolve

SpecSymTab == InitSymTab /\ [][NextSymTab]_vars

StDone == st # Idle /\ st.done

\* the entries the claim calls qualifying: in __TEXT,__text, of type N_SECT
Qualifying(sym, sections) ==
    /\ sym.Sect \in 1..Len(sections)
    /\ sections[sym.Sect].Seg = "__TEXT" /\ sections[sym.Sect].Name = "__text"
    /\ ~NotNSect(sym.Type)

\* C6: ResolveNameFromSymTab(va) returns the name of the entry with the
\* greatest Value <= va among the qualifying entries, and an error only when
\* no qualifying entry has Value <= va.
C6_NearestQualifying ==
    StDone =>
        LET Q == {i \in 1..Len(st.symbolTable) :
                     /\ Qualifying(st.symbolTable[i], st.Sections)
                     /\ Le64(st.symbolTable[i].Value, st.addr)}
        IN  IF Q = {}
            THEN st.out.err \in {"noEntry", "notText", "notNSect"}
            ELSE /\ st.out.err = "nil"
                 /\ \E i \in Q :
                        /\ st.out.name = st.symbolTable[i].Name
                        /\ \A j \in Q : Le64(st.symbolTable[j].Value,
                                             st.symbolTable[i].Value)

\* entry i is the one sort.Search selects: the first with Value <= addr
IsNearest(symbolTable, addr, i) ==
    /\ Le64(symbolTable[i].Value, addr)
    /\ \A j \in 1..(i - 1) : ~Le64(symbolTable[j].Value, addr)

\* C15: when the nearest preceding entry has section index 0 or one beyond
\* the section list, ResolveNameFromSymTab returns the no-symbol error and
\* does not index the section list out of range.
C15_SectOutOfRange ==
    StDone =>
        \A i \in 1..Len(st.symbolTable) :
            (/\ IsNearest(st.symbolTable, st.addr, i)
             /\ st.symbolTable[i].Sect \notin 1..Len(st.Sections))
                => st.out.err \in {"noEntry", "notText", "notNSect"}

----------------------------------------------------------------------------
(* A bytesReader driven by any sequence of calls.  br is [data, offset,    *)
(* call]: call is the last call, its arguments, the offset before it and   *)
(* what it returned.  A call that panics ends the run.                     *)

MaxData == 3

MaxArg == 2

BrData == {SubSeq(<<11, 12, 13, 14, 15, 16>>, 1, n) : n \in 0..MaxData}

BrInit ==
    \E data \in BrData :
        br = [data |-> data, offset |-> 0,
              call |-> [op |-> "newBytesReader", n |-> 0, whence |-> 0, pre |-> 0,
                        ret |-> 0, err |-> "nil"]]

BrLive == br # Idle /\ br.call.err # "panic"

\* the call recorded after an operation with outcome [ret, err, off]
BrCall(op, n, whence, ret, err) ==
    [op |-> op, n |-> n, whence |-> whence, pre |-> br.offset, ret |-> ret, err |-> err]

BrRead ==
    \E k \in 0..MaxArg :
        \E r \in {brRead(br.data, br.offset, k)} :
            /\ BrLive
            /\ br' = [br EXCEPT !.offset = r.off,
                                !.call = BrCall("Read", k, 0, r.n, r.err)]
            /\ UNCHANGED <<mf, last, ar, cu, fd, st, cli>>

BrReadByte ==
    \E r \in {brReadByte(br.data, br.offset)} :
        /\ BrLive
        /\ br' = [br EXCEPT !.offset = r.off,
                            !.call = BrCall("ReadByte", 1, 0, r.b, r.err)]
        /\ UNCHANGED <<mf, last, ar, cu, fd, st, cli>>

BrSkip ==
    \E n \in 0..MaxArg :
        \E r \in {brSkip(br.data, br.offset, n)} :
            /\ BrLive
            /\ br' = [br EXCEPT !.offset = r.off,
                                !.call = BrCall("Skip", n, 0, r.n, r.err)]
            /\ UNCHANGED <<mf, last, ar, cu, fd, st, cli>>

BrBytes ==
    \E n \in 0..MaxArg :
        \E r \in {brBytes(br.data, br.offset, n)} :
            /\ BrLive
            /\ br' = [br EXCEPT !.offset = r.off,
                                !.call = BrCall("Bytes", n, 0, r.b, r.err)]
            /\ UNCHANGED <<mf, last, ar, cu, fd, st, cli>>

BrSeek ==
    \E offset \in (-MaxArg)..(MaxData + MaxArg), whence \in 0..3 :
        \E r \in {brSeek(br.data, br.offset, offset, whence)} :
            /\ BrLive
            /\ r.off <= MaxData + MaxArg
            /\ br' = [br EXCEPT !.offset = r.off,
                                !.call = BrCall("Seek", offset, whence, r.ret, r.err)]
            /\ UNCHANGED <<mf, last, ar, cu, fd, st, cli>>

InitReader ==
    BrInit /\ mf = Idle /\ last = Idle /\ ar = Idle /\ cu = Idle /\ fd = Idle
        /\ st = Idle /\ cli = Idle

NextReader == BrRead \/ BrReadByte \/ BrSkip \/ BrBytes \/ BrSeek

SpecReader == InitReader /\ [][NextReader]_vars

\* the last call was op, made at an offset inside the data
BrAfter(op) ==
    /\ br # Idle /\ br.call.op = op
    /\ br.call.pre >= 0 /\ br.call.pre <= Len(br.data)

\* C16: at offset o in 0..len and n >= 0, Bytes(n) returns data[o .. o+n)
\* and Skip(n) returns n, without error, at offset o + n, when o + n <= len;
\* otherwise they return the remaining bytes and the remaining count with
\* the short-read error, at offset len.  ReadByte at offset len returns EOF
\* and leaves the offset unchanged.
C16_BytesSkipReadByte ==
    /\ BrAfter("Bytes") =>
           IF br.call.pre + br.call.n <= Len(br.data)
           THEN /\ br.call.ret = SubSeq(br.data, br.call.pre + 1, br.call.pre + br.call.n)
                /\ br.call.err = "nil"
                /\ br.offset = br.call.pre + br.call.n
           ELSE /\ br.call.ret = SubSeq(br.data, br.call.pre + 1, Len(br.data))
                /\ br.call.err = "ErrUnexpectedEOF"
                /\ br.offset = Len(br.data)
    /\ BrAfter("Skip") =>
           IF br.call.pre + br.call.n <= Len(br.data)
           THEN /\ br.call.ret = br.call.n
                /\ br.call.err = "nil"
                /\ br.offset = br.call.pre + br.call.n
           ELSE /\ br.call.ret = Len(br.data) - br.call.pre
                /\ br.call.err = "ErrUnexpectedEOF"
                /\ br.offset = Len(br.data)
    /\ (BrAfter("ReadByte") /\ br.call.pre = Len(br.data)) =>
           /\ br.call.err = "EOF"
           /\ br.offset = br.call.pre

\* a Skip(2) one byte before the end: one byte skipped, short read, at the end
C16_Witness ==
    /\ BrAfter("Skip")
    /\ Len(br.data) = 3 /\ br.call.pre = 2 /\ br.call.n = 2
    /\ br.call.ret = 1 /\ br.call.err = "ErrUnexpectedEOF" /\ br.offset = 3

\* C18: after any sequence of calls the offset is in 0..len(data) and
\* Len() >= 0.
C18_OffsetInRange ==
    br # Idle =>
        /\ 0 <= br.offset /\ br.offset <= Len(br.data)
        /\ brLen(br.data, br.offset) >= 0

----------------------------------------------------------------------------
(* debug/dwarf as Atos uses it.  A binary's .debug_info is a sequence of   *)
(* units; a unit is its root DIE followed by its other DIEs in document    *)
(* order, one byte each.  A Reader is [unit, die, err]: the 0-based unit   *)
(* and the index in it of the next entry (0 is the root DIE).  Ranges are  *)
(* half-open [lo, hi) pairs, as dwarf.Data.Ranges returns them.            *)

NilEntry == [unit |-> -1, die |-> -1, Tag |-> "nil", Name |-> "", ranges |-> <<>>]

DieAt(units, u, k) ==
    IF k = 0
    THEN [unit |-> u, die |-> 0, Tag |-> units[u + 1].tag, Name |-> "",
          ranges |-> units[u + 1].ranges]
    ELSE [unit |-> u, die |-> k, Tag |-> units[u + 1].dies[k].Tag,
          Name |-> units[u + 1].dies[k].Name,
          ranges |-> units[u + 1].dies[k].ranges]

UnitBodyLen(units, i) == 1 + Len(units[i].dies)

EncInfoUnit(units, i) ==
    EncCUHeader(TRUE, units[i].is64, units[i].version, 1, UnitBodyLen(units, i))
        \o <<1>> \o [k \in 1..Len(units[i].dies) |-> 2]

\* the offset in .debug_info of the header of unit i (1-based)
RECURSIVE UnitHeaderOff(_, _)
UnitHeaderOff(units, i) ==
    IF i = 1 THEN 0
    ELSE UnitHeaderOff(units, i - 1) + Len(EncInfoUnit(units, i - 1))

UnitBodyOff(units, i) ==
    UnitHeaderOff(units, i) + Len(EncInfoUnit(units, i)) - UnitBodyLen(units, i)

RECURSIVE InfoBytes(_, _)
InfoBytes(units, i) ==
    IF i > Len(units) THEN <<>>
    ELSE EncInfoUnit(units, i) \o InfoBytes(units, i + 1)

\* dwarf.Reader.Next
RdNext(units, rd) ==
    IF rd.err # "nil" THEN [entry |-> NilEntry, err |-> rd.err, rd |-> rd]
    ELSE IF Len(units) = 0 THEN [entry |-> NilEntry, err |-> "nil", rd |-> rd]
    ELSE
    Bind(IF rd.die >= UnitBodyLen(units, rd.unit + 1) /\ rd.unit + 1 < Len(units)
         THEN [rd EXCEPT !.unit = rd.unit + 1, !.die = 0]
         ELSE rd, LAMBDA adv :
    IF adv.die >= UnitBodyLen(units, adv.unit + 1)
    THEN [entry |-> NilEntry, err |-> "nil", rd |-> adv]
    ELSE [entry |-> DieAt(units, adv.unit, adv.die), err |-> "nil",
          rd |-> [adv EXCEPT !.die = adv.die + 1]])

\* dwarf.Reader.Seek
RdSeek(units, rd, off) ==
    IF off = 0
    THEN IF Len(units) = 0 THEN [rd EXCEPT !.err = "nil"]
         ELSE [unit |-> 0, die |-> 0, err |-> "nil"]
    ELSE
    Bind({i \in 1..Len(units) :
             /\ UnitBodyOff(units, i) <= off
             /\ off < UnitBodyOff(units, i) + UnitBodyLen(units, i)}, LAMBDA I :
    IF I = {} THEN [rd EXCEPT !.err = "offset out of range"]
    ELSE Bind(CHOOSE i \in I : TRUE, LAMBDA i :
         [unit |-> i - 1, die |-> off - UnitBodyOff(units, i), err |-> "nil"]))

InRanges(ranges, pc) ==
    \E k \in 1..Len(ranges) : Le64(ranges[k][1], pc) /\ Lt64(pc, ranges[k][2])

\* dwarf.Reader.SeekPC's loop: the units are tried from the reader's unit on,
\* wrapping around
RECURSIVE SeekPCLoop(_, _, _, _, _)
SeekPCLoop(units, pc, unit, i, rd) ==
    IF i >= Len(units) THEN [entry |-> NilEntry, err |-> "ErrUnknownPC", rd |-> rd]
    ELSE
    Bind(IF unit >= Len(units) THEN 0 ELSE unit, LAMBDA u :
    IF InRanges(DieAt(units, u, 0).ranges, pc)
    THEN [entry |-> DieAt(units, u, 0), err |-> "nil",
          rd |-> [unit |-> u, die |-> 1, err |-> "nil"]]
    ELSE SeekPCLoop(units, pc, u + 1, i + 1, [unit |-> u, die |-> 1, err |-> "nil"]))

\* dwarf.Reader.SeekPC
RdSeekPC(units, rd, pc) == SeekPCLoop(units, pc, rd.unit, 0, rd)

\* dwarf.LineReader.SeekPC's scan: entry is rows[i - 1]
RECURSIVE LineScan(_, _, _)
LineScan(rows, pc, i) ==
    IF i > Len(rows) THEN [err |-> "ErrUnknownPC", le |-> rows[1]]
    ELSE IF Lt64(pc, rows[i].Address)
         THEN IF rows[i - 1].EndSequence
              THEN [err |-> "ErrUnknownPC", le |-> rows[1]]
              ELSE [err |-> "nil", le |-> rows[i - 1]]
         ELSE LineScan(rows, pc, i + 1)

\* dwarf.LineReader.SeekPC on a fresh reader of the unit's line table
LineSeekPC(rows, pc) ==
    IF rows = <<>> THEN [err |-> "EOF", le |-> [Address |-> Zero64, Line |-> 0,
                                                  EndSequence |-> FALSE]]
    ELSE IF Lt64(pc, rows[1].Address) THEN [err |-> "ErrUnknownPC", le |-> rows[1]]
    ELSE LineScan(rows, pc, 2)

----------------------------------------------------------------------------
(* MachFile                                                                *)

VMAddr(f) == f.vmAddr

LoadSlide(f) == f.loadSlide

\* a mutant of SetLoadAddress: the slide is the sum
SetLoadAddressSum(f, lAddr) == [f EXCEPT !.loadSlide = Add64(lAddr, f.vmAddr)]

SetLoadAddress(f, lAddr) == [f EXCEPT !.loadSlide = Sub64(lAddr, f.vmAddr)]

LoadAddress(f) == Add64(f.vmAddr, f.loadSlide)

SetLoadSlide(f, loadSlide) == [f EXCEPT !.loadSlide = loadSlide]

\* a mutant of AtosVMAddr: the slide is added
AtosVMAddrSum(f, pc) == Add64(pc, f.loadSlide)

\* vmAddr := pc - f.loadSlide
AtosVMAddr(f, pc) == Sub64(pc, f.loadSlide)

FastLocateCUEntry(f, addr) ==
    IF Len(f.debugAranges) = 0
    THEN [entry |-> NilEntry, err |-> "no debug aranges", rd |-> f.dwarfReader]
    ELSE
    Bind(FindArange(f.debugAranges, addr), LAMBDA fr :
    IF ~fr.found
    THEN [entry |-> NilEntry, err |-> "not in any PC ranges", rd |-> f.dwarfReader]
    ELSE
    Bind(GetCUBodyOffset(f.debugAranges[fr.idx + 1].CUOffset,
                         InfoBytes(f.bin.units, 1)), LAMBDA body :
    IF body.err = "panic"
    THEN [entry |-> NilEntry, err |-> "panic", rd |-> f.dwarfReader]
    ELSE IF body.err # "nil"
    THEN [entry |-> NilEntry, err |-> "unable to locate CU", rd |-> f.dwarfReader]
    ELSE RdNext(f.bin.units, RdSeek(f.bin.units, f.dwarfReader, body.off))))

\* a mutant of LocateCUEntry: the outcome of the fast path is returned
LocateCUEntryNoFallback(f, addr) ==
    IF Len(f.debugAranges) > 0
    THEN FastLocateCUEntry(f, addr)
    ELSE RdSeekPC(f.bin.units, f.dwarfReader, addr)

LocateCUEntry(f, addr) ==
    IF Len(f.debugAranges) > 0
    THEN Bind(FastLocateCUEntry(f, addr), LAMBDA fast :
         IF fast.err \in {"nil", "panic"} THEN fast
         ELSE RdSeekPC(f.bin.units, fast.rd, addr))
    ELSE RdSeekPC(f.bin.units, f.dwarfReader, addr)

\* the subprogram loop of Atos: [err, Func, rd]
RECURSIVE FindSubprogram(_, _, _)
FindSubprogram(units, rd, vmAddr) ==
    Bind(RdNext(units, rd), LAMBDA n :
    IF n.err = "nil" /\ n.entry = NilEntry
    THEN [err |-> "unable to find subprogram entry", Func |-> "", rd |-> n.rd]
    ELSE IF n.err # "nil"
    THEN [err |-> "unable to fetch CU Subprogram entry", Func |-> "", rd |-> n.rd]
    ELSE IF n.entry.Tag \in {"CompileUnit", "PartialUnit"}
    THEN [err |-> "current CU has reached the end", Func |-> "", rd |-> n.rd]
    ELSE IF /\ n.entry.Tag = "Subprogram"
            /\ \E k \in 1..Len(n.entry.ranges) :
                   /\ Le64(n.entry.ranges[k][1], vmAddr)
                   /\ Le64(vmAddr, n.entry.ranges[k][2])
    THEN [err |-> "nil", Func |-> n.entry.Name, rd |-> n.rd]
    ELSE FindSubprogram(units, n.rd, vmAddr))

NoLine == [Address |-> Zero64, Line |-> 0, EndSequence |-> FALSE]

\* the Symbol and error Atos returns without a function and a line
NoSymbol(e, rd) == [err |-> e, Func |-> "", Line |-> NoLine, rd |-> rd]

\* Atos: [err, Func, Line, rd]; a nil entry without an error is dereferenced
Atos(f, pc) ==
    Bind(AtosVMAddr(f, pc), LAMBDA vmAddr :
    Bind(LocateCUEntry(f, vmAddr), LAMBDA loc :
    IF loc.err # "nil" THEN NoSymbol(loc.err, loc.rd)
    ELSE IF loc.entry = NilEntry THEN NoSymbol("panic", loc.rd)
    ELSE IF loc.entry.Tag # "CompileUnit"
    THEN NoSymbol("expect a compile unit entry", loc.rd)
    ELSE
    Bind(LineSeekPC(f.bin.units[loc.entry.unit + 1].rows, vmAddr), LAMBDA line :
    IF line.err # "nil" THEN NoSymbol("unable to locate line entry", loc.rd)
    ELSE
    Bind(FindSubprogram(f.bin.units, loc.rd, vmAddr), LAMBDA sub :
    [err |-> sub.err, Func |-> sub.Func,
     Line |-> IF sub.err = "nil" THEN line.le ELSE NoLine, rd |-> sub.rd]))))

\* Close: the handles Close was called on, in order, and the error returned;
\* fails is the set of handles whose Close returns an error, which is the
\* environment's choice (an io.Closer may fail)
Close(f, fails) ==
    IF "macho" \in fails
    THEN [closed |-> <<"macho">>, err |-> <<"macho">>]
    ELSE IF f.ff /\ "fat" \in fails
    THEN [closed |-> <<"macho", "fat">>, err |-> <<"fat">>]
    ELSE IF f.rCloser /\ "os" \in fails
    THEN [closed |-> <<"macho">> \o (IF f.ff THEN <<"fat">> ELSE <<>>) \o <<"os">>,
          err |-> <<"os">>]
    ELSE [closed |-> <<"macho">> \o (IF f.ff THEN <<"fat">> ELSE <<>>)
                         \o (IF f.rCloser THEN <<"os">> ELSE <<>>),
          err |-> <<>>]

----------------------------------------------------------------------------
(* The binaries the container is opened on.  The text segment is at        *)
(* 0x100000000; a binary has one compile unit [T+1, T+5) with the          *)
(* subprograms f [T+1, T+3) and g [T+3, T+5), or two compile units         *)
(* [T+1, T+3) and [T+3, T+5) holding f and g; its __debug_aranges section, *)
(* when present, lists every unit's ranges.                                *)

TextBase == <<0, 0, 0, 1, 0, 0, 0, 0>>

A(k) == Add64(TextBase, U(k))

\* the line table of a unit [lo, hi): a row per address and the end of sequence
LineRows(lo, hi) ==
    [i \in 1..(hi - lo + 1) |->
        [Address |-> A(lo + i - 1), Line |-> 10 + lo + i - 1,
         EndSequence |-> i = hi - lo + 1]]

Subprogram(name, lo, hi) ==
    [Tag |-> "Subprogram", Name |-> name, ranges |-> <<<<A(lo), A(hi)>>>>]

Variable(name) == [Tag |-> "Variable", Name |-> name, ranges |-> <<>>]

CompileUnit(is64, version, lo, hi, dies) ==
    [tag |-> "CompileUnit", is64 |-> is64, version |-> version,
     ranges |-> <<<<A(lo), A(hi)>>>>, dies |-> dies, rows |-> LineRows(lo, hi)]

UnitsOne ==
    <<CompileUnit(FALSE, 4, 1, 5,
                  <<Subprogram("f", 1, 3), Variable("v"), Subprogram("g", 3, 5)>>)>>

UnitsTwo ==
    <<CompileUnit(FALSE, 4, 1, 3, <<Subprogram("f", 1, 3)>>),
      CompileUnit(TRUE, 5, 3, 5, <<Variable("v"), Subprogram("g", 3, 5)>>)>>

Loads ==
    <<[Name |-> "__PAGEZERO", Addr |-> Zero64], [Name |-> "__TEXT", Addr |-> TextBase],
      [Name |-> "__LINKEDIT", Addr |-> A(4096)]>>

\* the __debug_aranges payload of the units: one unit per compile unit
\* two compile units whose ranges overlap in [T+3, T+5), as when the linker
\* folds identical functions of two units into one address range
UnitsOverlap ==
    <<CompileUnit(FALSE, 4, 1, 5, <<Subprogram("f", 1, 3), Subprogram("g0", 3, 5)>>),
      CompileUnit(FALSE, 4, 3, 6, <<Subprogram("g", 3, 5), Subprogram("h", 5, 6)>>)>>

\* the debug_info_offset a unit of __debug_aranges names: the header of its
\* compile unit, or an offset two bytes before or one byte after the end of
\* __debug_info
WrittenCUOffset(units, cuOffsets, i) ==
    CASE cuOffsets = "unit" -> UnitHeaderOff(units, i)
      [] cuOffsets = "short" -> Len(InfoBytes(units, 1)) - 2
      [] cuOffsets = "past" -> Len(InfoBytes(units, 1)) + 1

RECURSIVE ArangesPayload(_, _, _)
ArangesPayload(units, cuOffsets, i) ==
    IF i > Len(units) THEN <<>>
    ELSE EncUnit(TRUE, 8, 0, U(WrittenCUOffset(units, cuOffsets, i)),
                 [k \in 1..(Len(units[i].ranges) + 1) |->
                     IF k <= Len(units[i].ranges)
                     THEN [segment |-> Zero64, address |-> units[i].ranges[k][1],
                           length |-> Sub64(units[i].ranges[k][2],
                                            units[i].ranges[k][1])]
                     ELSE TupleOf("end", 8)])
             \o ArangesPayload(units, cuOffsets, i + 1)

Binaries ==
    { [Loads |-> Loads, units |-> us, hasAranges |-> h, cuOffsets |-> "unit"] :
        us \in {UnitsOne, UnitsTwo, UnitsOverlap}, h \in BOOLEAN }
    \cup { [Loads |-> Loads, units |-> UnitsTwo, hasAranges |-> TRUE, cuOffsets |-> c] :
             c \in {"short", "past"} }

\* the Addr of the first __TEXT segment of the load commands
RECURSIVE TextVMAddr(_, _)
TextVMAddr(loads, i) ==
    IF i > Len(loads) THEN Zero64
    ELSE IF loads[i].Name = "__TEXT" THEN loads[i].Addr
    ELSE TextVMAddr(loads, i + 1)

\* MachFile.parseDebugAranges; OpenMachO ignores its error
parseDebugAranges(bin) ==
    IF ~bin.hasAranges THEN <<>>
    ELSE Bind(ParseDebugAranges(ArangesPayload(bin.units, bin.cuOffsets, 1)), LAMBDA r :
         IF r.err # "nil" THEN <<>> ELSE SortByLowPC(r.aranges))

\* the container OpenMachO returns; ff: the file is FAT; rCloser: the reader
\* implements io.Closer
OpenMachO(bin, ff, rCloser) ==
    [bin |-> bin, ff |-> ff, rCloser |-> rCloser,
     vmAddr |-> TextVMAddr(bin.Loads, 1),
     loadSlide |-> Zero64,
     debugAranges |-> parseDebugAranges(bin),
     dwarfReader |-> [unit |-> 0, die |-> 0, err |-> "nil"],
     closeCalled |-> FALSE]

MaxOff == 5

Slides == {Zero64, U(2), <<0, 0, 0, 0, 4, 72, 0, 0>>, Max64}

LoadAddrs == {Add64(TextBase, s) : s \in Slides} \cup {U(5)}

PCs == {Add64(A(k), s) : k \in 0..MaxOff, s \in Slides}

\* the process has panicked in Atos, or the container is closed
Stopped == mf.closeCalled \/ (last.op = "Atos" /\ last.res.err = "panic")

Init ==
    /\ \E bin \in Binaries, ff \in BOOLEAN, rCloser \in BOOLEAN :
           mf = OpenMachO(bin, ff, rCloser)
    /\ last = [op |-> "OpenMachO", arg |-> Zero64, pre |-> Idle, res |-> "nil"]
    /\ ar = Idle /\ cu = Idle /\ fd = Idle /\ st = Idle /\ br = Idle /\ cli = Idle

DoSetLoadAddress ==
    \E lAddr \in LoadAddrs :
        /\ ~Stopped
        /\ mf' = SetLoadAddress(mf, lAddr)
        /\ last' = [op |-> "SetLoadAddress", arg |-> lAddr, pre |-> mf, res |-> "nil"]
        /\ UNCHANGED <<ar, cu, fd, st, br, cli>>

DoSetLoadSlide ==
    \E loadSlide \in Slides :
        /\ ~Stopped
        /\ mf' = SetLoadSlide(mf, loadSlide)
        /\ last' = [op |-> "SetLoadSlide", arg |-> loadSlide, pre |-> mf, res |-> "nil"]
        /\ UNCHANGED <<ar, cu, fd, st, br, cli>>

DoAtos ==
    \E pc \in PCs :
        \E r \in {Atos(mf, pc)} :
            /\ ~Stopped
            /\ mf' = [mf EXCEPT !.dwarfReader = r.rd]
            /\ last' = [op |-> "Atos", arg |-> pc, pre |-> mf,
                        res |-> [err |-> r.err, Func |-> r.Func, Line |-> r.Line]]
            /\ UNCHANGED <<ar, cu, fd, st, br, cli>>

DoClose ==
    \E fails \in SUBSET {"macho", "fat", "os"} :
        /\ ~Stopped
        /\ mf' = [mf EXCEPT !.closeCalled = TRUE]
        /\ last' = [op |-> "Close", arg |-> fails, pre |-> mf, res |-> Close(mf, fails)]
        /\ UNCHANGED <<ar, cu, fd, st, br, cli>>

Next == DoSetLoadAddress \/ DoSetLoadSlide \/ DoAtos \/ DoClose

Spec == Init /\ [][Next]_vars

LastOp(op) == last # Idle /\ last.op = op

\* the subprogram DIEs of the binary
Subprograms(bin) ==
    UNION { {bin.units[u].dies[k] : k \in 1..Len(bin.units[u].dies)} :
              u \in 1..Len(bin.units) }
        \ {d \in UNION { {bin.units[u].dies[k] : k \in 1..Len(bin.units[u].dies)} :
                           u \in 1..Len(bin.units) } : d.Tag # "Subprogram"}

\* C1: for a subprogram named N whose PC range starts at A and any slide S,
\* Atos(A + S) returns a Symbol with Func = N, also when an earlier
\* subprogram's range ends at A.
C1_FuncAtRangeStart ==
    LastOp("Atos") =>
        LET va == Sub64(last.arg, last.pre.loadSlide)
        IN  \A d \in Subprograms(last.pre.bin) :
                (\E k \in 1..Len(d.ranges) : d.ranges[k][1] = va)
                    => last.res.err = "nil" /\ last.res.Func = d.Name

\* C2: Atos(pc) on a container with slide S has the outcome of Atos(pc - S)
\* on the same container with slide 0 (modulo 2^64).
C2_SlideTranslation ==
    LastOp("Atos") =>
        LET r == Atos([last.pre EXCEPT !.loadSlide = Zero64],
                      Sub64(last.arg, last.pre.loadSlide))
        IN  last.res = [err |-> r.err, Func |-> r.Func, Line |-> r.Line]

\* a pc below the slide: 0x100000000 with slide 2^64 - 1 resolves to f at
\* 0x100000001
C2_Witness ==
    /\ LastOp("Atos")
    /\ last.pre.loadSlide = Max64
    /\ last.arg = TextBase
    /\ last.res.err = "nil" /\ last.res.Func = "f"
    /\ last.res.Line.Address = A(1)

\* C3: after SetLoadAddress(x), for any x (also below VMAddr),
\* LoadAddress() = x, LoadSlide() = x - VMAddr() modulo 2^64 and VMAddr() is
\* unchanged; SetLoadAddress(LoadAddress()) leaves the slide unchanged.
C3_SetLoadAddress ==
    LastOp("SetLoadAddress") =>
        /\ LoadAddress(mf) = last.arg
        /\ Add64(LoadSlide(mf), VMAddr(mf)) = last.arg
        /\ LoadSlide(mf) = Sub64(last.arg, VMAddr(mf))
        /\ VMAddr(mf) = VMAddr(last.pre)
        /\ last.arg = LoadAddress(last.pre) => LoadSlide(mf) = LoadSlide(last.pre)
        /\ LoadSlide(SetLoadAddress(mf, LoadAddress(mf))) = LoadSlide(mf)

\* a load address below VMAddr: the slide wraps around
C3_Witness ==
    /\ LastOp("SetLoadAddress")
    /\ last.arg = U(5)
    /\ Lt64(last.arg, VMAddr(mf))
    /\ LoadSlide(mf) = <<255, 255, 255, 255, 0, 0, 0, 5>>

\* SetLoadAddress(LoadAddress()) applied to a container with a nonzero slide
C3_WitnessAgain ==
    /\ LastOp("SetLoadAddress")
    /\ last.arg = LoadAddress(last.pre)
    /\ LoadSlide(last.pre) = Max64

\* C4: for a pc whose va = pc - slide lies in some arange entry
\* (LowPC <= va <= HighPC), the compile unit the fast path selects is the
\* one the linear SeekPC(va) selects.
C4_FastEqualsLinear ==
    LastOp("Atos") =>
        LET va == Sub64(last.arg, last.pre.loadSlide)
            fast == FastLocateCUEntry(last.pre, va)
            linear == RdSeekPC(last.pre.bin.units, last.pre.dwarfReader, va)
        IN  (\E i \in 1..Len(last.pre.debugAranges) :
                 Contains(last.pre.debugAranges[i], va))
                => /\ fast.err = "nil"
                   /\ linear.err = "nil"
                   /\ fast.entry.unit = linear.entry.unit

\* the handles of the container, in the order Close releases them
Handles(f) ==
    <<"macho">> \o (IF f.ff THEN <<"fat">> ELSE <<>>)
        \o (IF f.rCloser THEN <<"os">> ELSE <<>>)

FastPathErrors ==
    {"no debug aranges", "not in any PC ranges", "unable to locate CU",
     "offset out of range"}

Fresh(f) ==
    [OpenMachO(f.bin, f.ff, f.rCloser) EXCEPT !.loadSlide = f.loadSlide]

\* C14: in any series of Atos calls with a fixed slide, the outcome of
\* Atos(pc) is the outcome it has as the first call on a freshly opened
\* container, wherever earlier calls left the reader.
C14_CursorIndependent ==
    LastOp("Atos") =>
        LET r == Atos(Fresh(last.pre), last.arg)
        IN  last.res = [err |-> r.err, Func |-> r.Func, Line |-> r.Line]

----------------------------------------------------------------------------
(* Opening.  A file is [magic, arches]: arches are its slices, each a cpu  *)
(* and a binary; a thin file has one.  OpenMachO hands Parse an *os.File.  *)

\* the MachFile literal Parse returns; dwarfReader is nil
ParsedMachFile(bin, ff, rCloser) ==
    [bin |-> bin, ff |-> ff, rCloser |-> rCloser,
     vmAddr |-> Zero64, loadSlide |-> Zero64, debugAranges |-> <<>>,
     dwarfReader |-> [unit |-> 0, die |-> 0, err |-> "nil pointer"],
     closeCalled |-> FALSE]

\* Parse: [err, mf]
Parse(file, arch, rCloser) ==
    IF file.magic = "fat"
    THEN Bind({i \in 1..Len(file.arches) : file.arches[i].cpu = arch}, LAMBDA I :
         IF I = {} THEN [err |-> "arch not found", mf |-> Idle]
         ELSE [err |-> "nil",
               mf |-> ParsedMachFile(
                          file.arches[CHOOSE i \in I : \A j \in I : i <= j].bin,
                          TRUE, rCloser)])
    ELSE IF file.magic = "thin"
    THEN IF file.arches[1].cpu # arch THEN [err |-> "arch not match", mf |-> Idle]
         ELSE [err |-> "nil", mf |-> ParsedMachFile(file.arches[1].bin, FALSE, rCloser)]
    ELSE [err |-> "invalid magic", mf |-> Idle]

\* OpenMachO(file, arch): [err, mf]
OpenMachOFile(file, arch) ==
    Bind(Parse(file, arch, TRUE), LAMBDA p :
    IF p.err # "nil" THEN [err |-> "unable to parse", mf |-> Idle]
    ELSE [err |-> "nil", mf |-> OpenMachO(p.mf.bin, p.mf.ff, p.mf.rCloser)])

MaxLoads == 3

\* load commands: segments at their vmaddr, and a command that is no segment
LoadKinds ==
    {[Name |-> "__PAGEZERO", Addr |-> Zero64], [Name |-> "__TEXT", Addr |-> TextBase],
     [Name |-> "__TEXT", Addr |-> A(4096)], [Name |-> "__LINKEDIT", Addr |-> A(8192)],
     [Name |-> "", Addr |-> Zero64]}

BinOf(loads) ==
    [Loads |-> loads, units |-> UnitsOne, hasAranges |-> FALSE, cuOffsets |-> "unit"]

Files ==
    { [magic |-> m,
       arches |-> IF m = "fat"
                  THEN <<[cpu |-> "x86_64", bin |-> BinOf(Loads)],
                         [cpu |-> "arm64", bin |-> BinOf(loads)]>>
                  ELSE <<[cpu |-> "arm64", bin |-> BinOf(loads)]>>] :
        m \in {"fat", "thin", "bad"}, loads \in SeqsUpTo(LoadKinds, MaxLoads) }

InitOpen ==
    /\ \E file \in Files, arch \in {"arm64", "x86_64", "arm"} :
           last = [op |-> "none", arg |-> [file |-> file, arch |-> arch],
                   pre |-> Idle, res |-> "nil"]
    /\ mf = Idle
    /\ ar = Idle /\ cu = Idle /\ fd = Idle /\ st = Idle /\ br = Idle /\ cli = Idle

\* mf, err := OpenMachO(file, arch)
CallOpenMachO ==
    \E r \in {OpenMachOFile(last.arg.file, last.arg.arch)} :
        /\ last.op = "none"
        /\ mf' = r.mf
        /\ last' = [last EXCEPT !.op = "OpenMachO", !.res = r.err]
        /\ UNCHANGED <<ar, cu, fd, st, br, cli>>

\* mf, err := Parse(r, arch)
CallParse ==
    \E rCloser \in BOOLEAN :
        \E r \in {Parse(last.arg.file, last.arg.arch, rCloser)} :
            /\ last.op = "none"
            /\ mf' = r.mf
            /\ last' = [last EXCEPT !.op = "Parse", !.res = r.err]
            /\ UNCHANGED <<ar, cu, fd, st, br, cli>>

NextOpen == CallOpenMachO \/ CallParse

SpecOpen == InitOpen /\ [][NextOpen]_vars

\* a container was handed to the caller
Handed == last # Idle /\ last.op \in {"OpenMachO", "Parse"} /\ last.res = "nil"

\* C17: every container handed to a caller by OpenMachO or Parse has
\* VMAddr() equal to the vmaddr of the first __TEXT segment of the selected
\* slice, and LoadSlide() = 0.
C17_OpenedVMAddr ==
    Handed =>
        /\ LoadSlide(mf) = Zero64
        /\ \A i \in 1..Len(mf.bin.Loads) :
               (/\ mf.bin.Loads[i].Name = "__TEXT"
                /\ \A j \in 1..(i - 1) : mf.bin.Loads[j].Name # "__TEXT")
                   => VMAddr(mf) = mf.bin.Loads[i].Addr

----------------------------------------------------------------------------
(* The command line front ends: cmd/gatos and the older main.  An argument *)
(* is a sequence of characters.                                            *)

DigitVal(c) ==
    CASE c = "0" -> 0 [] c = "1" -> 1 [] c = "2" -> 2 [] c = "3" -> 3
      [] c = "4" -> 4 [] c = "5" -> 5 [] c = "6" -> 6 [] c = "7" -> 7
      [] c = "8" -> 8 [] c = "9" -> 9 [] c = "a" -> 10 [] c = "b" -> 11
      [] c = "c" -> 12 [] c = "d" -> 13 [] c = "e" -> 14 [] c = "f" -> 15
      [] OTHER -> 99

HasHexSign(addr) ==
    Len(addr) >= 2 /\ addr[1] = "0" /\ addr[2] \in {"x", "X"}

prependHexSign(addr) == IF HasHexSign(addr) THEN addr ELSE <<"0", "x">> \o addr

\* up to 16 hexadecimal digits as a uint64
HexTo64(ds) ==
    Bind(Zeros(16 - Len(ds)) \o [i \in 1..Len(ds) |-> DigitVal(ds[i])], LAMBDA p :
    <<16 * p[1] + p[2], 16 * p[3] + p[4], 16 * p[5] + p[6], 16 * p[7] + p[8],
      16 * p[9] + p[10], 16 * p[11] + p[12], 16 * p[13] + p[14],
      16 * p[15] + p[16]>>)

\* the digits ds in the given base as a number (below 2^31)
RECURSIVE NatOf(_, _, _)
NatOf(ds, base, acc) ==
    IF ds = <<>> THEN acc
    ELSE NatOf(Tail(ds), base, acc * base + DigitVal(Head(ds)))

NatTo64(n) ==
    <<0, 0, 0, 0, (n \div 16777216) % 256, (n \div 65536) % 256, (n \div 256) % 256,
      n % 256>>

\* strconv.ParseUint(s, 0, 64): the base is taken from the prefix
ParseUint0(str) ==
    IF HasHexSign(str)
    THEN Bind(SubSeq(str, 3, Len(str)), LAMBDA ds :
         IF ds = <<>> \/ \E i \in 1..Len(ds) : DigitVal(ds[i]) > 15
         THEN [err |-> "ErrSyntax", v |-> Zero64]
         ELSE IF Len(ds) > 16 THEN [err |-> "ErrRange", v |-> Max64]
         ELSE [err |-> "nil", v |-> HexTo64(ds)])
    ELSE Bind(IF Len(str) > 1 /\ str[1] = "0" THEN 8 ELSE 10, LAMBDA base :
         IF str = <<>> \/ \E i \in 1..Len(str) : DigitVal(str[i]) >= base
         THEN [err |-> "ErrSyntax", v |-> Zero64]
         ELSE [err |-> "nil", v |-> NatTo64(NatOf(str, base, 0))])

\* what a front end writes for one input
RawRecord(addr) == [kind |-> "raw", text |-> addr, Func |-> "", Line |-> 0]

InvalidRecord(kind, addr) == [kind |-> kind, text |-> addr, Func |-> "", Line |-> 0]

SymbolRecord(r) == [kind |-> "symbol", text |-> <<>>, Func |-> r.Func, Line |-> r.Line.Line]

\* a mutant of GatosAddress: an address that does not parse writes nothing
GatosAddressSilent(f, isOffset, addr) ==
    Bind(ParseUint0(prependHexSign(addr)), LAMBDA p :
    IF p.err # "nil" THEN [out |-> <<>>, called |-> <<>>, mf |-> f]
    ELSE
    Bind(IF isOffset THEN Add64(LoadAddress(f), p.v) ELSE p.v, LAMBDA pc :
    Bind(Atos(f, pc), LAMBDA r :
    [out |-> <<IF r.err # "nil" THEN RawRecord(addr) ELSE SymbolRecord(r)>>,
     called |-> <<[pc |-> pc, err |-> r.err]>>, mf |-> [f EXCEPT !.dwarfReader = r.rd]])))

\* one turn of the loop of cmd/gatos: the records written, the Atos call made
\* (its argument and error), the container afterwards
GatosAddress(f, isOffset, addr) ==
    Bind(ParseUint0(prependHexSign(addr)), LAMBDA p :
    IF p.err # "nil" THEN [out |-> <<RawRecord(addr)>>, called |-> <<>>, mf |-> f]
    ELSE
    Bind(IF isOffset THEN Add64(LoadAddress(f), p.v) ELSE p.v, LAMBDA pc :
    Bind(Atos(f, pc), LAMBDA r :
    [out |-> <<IF r.err # "nil" THEN RawRecord(addr) ELSE SymbolRecord(r)>>,
     called |-> <<[pc |-> pc, err |-> r.err]>>, mf |-> [f EXCEPT !.dwarfReader = r.rd]])))

\* one turn of the loop of the older main
OldAddress(f, isOffset, addr) ==
    Bind(IF isOffset THEN ParseUint0(addr) ELSE ParseUint0(prependHexSign(addr)),
         LAMBDA p :
    IF ~isOffset /\ p.err # "nil"
    THEN [out |-> <<InvalidRecord("invalid address", addr)>>, called |-> <<>>, mf |-> f]
    ELSE
    Bind(IF isOffset THEN Add64(p.v, VMAddr(f)) ELSE Sub64(p.v, LoadSlide(f)),
         LAMBDA vmAddr :
    Bind(Atos(f, vmAddr), LAMBDA r :
    [out |-> (IF p.err # "nil"
              THEN <<InvalidRecord("invalid address offset", addr)>> ELSE <<>>)
                 \o <<IF r.err # "nil" THEN InvalidRecord("invalid address", addr)
                      ELSE SymbolRecord(r)>>,
     called |-> <<[pc |-> vmAddr, err |-> r.err]>>, mf |-> [f EXCEPT !.dwarfReader = r.rd]])))

\* the flag values parsed and the setters applied before the loop: [err, mf];
\* opts is [fe, l, s, offset], an unset flag being the empty string
CliStart(opts, bin) ==
    Bind(IF opts.l = <<>> THEN [err |-> "nil", v |-> Zero64]
         ELSE ParseUint0(prependHexSign(opts.l)), LAMBDA lAddr :
    Bind(IF opts.s = <<>> THEN [err |-> "nil", v |-> Zero64]
         ELSE IF opts.fe = "gatos" THEN ParseUint0(prependHexSign(opts.s))
         ELSE ParseUint0(opts.s), LAMBDA loadSlide :
    IF lAddr.err # "nil" THEN [err |-> "invalid load address", mf |-> Idle]
    ELSE IF loadSlide.err # "nil" THEN [err |-> "invalid slide value", mf |-> Idle]
    ELSE IF (IF opts.l # <<>> THEN 1 ELSE 0) + (IF opts.s # <<>> THEN 1 ELSE 0)
                + (IF opts.offset THEN 1 ELSE 0) > 1
    THEN [err |-> "only one of", mf |-> Idle]
    ELSE
    Bind(OpenMachO(bin, FALSE, TRUE), LAMBDA f0 :
    Bind(IF lAddr.v # Zero64 THEN SetLoadAddress(f0, lAddr.v) ELSE f0, LAMBDA f1 :
    [err |-> "nil",
     mf |-> IF loadSlide.v # Zero64 THEN SetLoadSlide(f1, loadSlide.v) ELSE f1]))))

MaxAddresses == 3

\* "0x100000003", "100000005", "zz", "3"
CliAddresses ==
    {<<"0", "x", "1", "0", "0", "0", "0", "0", "0", "0", "3">>,
     <<"1", "0", "0", "0", "0", "0", "0", "0", "5">>, <<"z", "z">>, <<"3">>}

\* no flag, -l 100000002, -s 2, -offset, -s zz, -l 100000002 -s 2
CliFlags ==
    {[l |-> <<>>, s |-> <<>>, offset |-> FALSE],
     [l |-> <<"1", "0", "0", "0", "0", "0", "0", "0", "2">>, s |-> <<>>, offset |-> FALSE],
     [l |-> <<>>, s |-> <<"2">>, offset |-> FALSE],
     [l |-> <<>>, s |-> <<>>, offset |-> TRUE],
     [l |-> <<>>, s |-> <<"z", "z">>, offset |-> FALSE],
     [l |-> <<"1", "0", "0", "0", "0", "0", "0", "0", "2">>, s |-> <<"2">>,
      offset |-> FALSE]}

\* the binaries the front ends are run on: those with well-formed sections
CliBinaries == {b \in Binaries : b.cuOffsets = "unit" /\ b.units # UnitsOverlap}

CliInit ==
    \E fe \in {"gatos", "old"}, fl \in CliFlags, bin \in CliBinaries,
       args \in SeqsUpTo(CliAddresses, MaxAddresses) :
        cli = [opts |-> [fe |-> fe, l |-> fl.l, s |-> fl.s, offset |-> fl.offset],
               bin |-> bin, args |-> args, phase |-> "start", i |-> 1,
               out |-> <<>>, calls |-> <<>>, mf |-> Idle, exit |-> -1]

\* main, up to the loop
CliOpen ==
    /\ cli.phase = "start"
    /\ \E r \in {CliStart(cli.opts, cli.bin)} :
        /\ cli' = IF r.err # "nil" THEN [cli EXCEPT !.phase = "exited", !.exit = 1]
                  ELSE [cli EXCEPT !.phase = "loop", !.mf = r.mf]
        /\ UNCHANGED <<mf, last, ar, cu, fd, st, br>>

\* one turn of the loop: for _, addr := range addresses
CliAddress ==
    /\ cli.phase = "loop" /\ cli.i <= Len(cli.args)
    /\ \E r \in {IF cli.opts.fe = "gatos"
                  THEN GatosAddress(cli.mf, cli.opts.offset, cli.args[cli.i])
                  ELSE OldAddress(cli.mf, cli.opts.offset, cli.args[cli.i])} :
        /\ cli' = [cli EXCEPT
                      !.i = cli.i + 1,
                      !.mf = r.mf,
                      !.out = cli.out \o [k \in 1..Len(r.out) |->
                                             [input |-> cli.i, rec |-> r.out[k]]],
                      !.calls = cli.calls \o [k \in 1..Len(r.called) |->
                                    [input |-> cli.i, pc |-> r.called[k].pc,
                                     err |-> r.called[k].err,
                                     va |-> AtosVMAddr(cli.mf, r.called[k].pc)]]]
        /\ UNCHANGED <<mf, last, ar, cu, fd, st, br>>

\* the end of main: the deferred Close, exit status 0
CliReturn ==
    /\ cli.phase = "loop" /\ cli.i > Len(cli.args)
    /\ cli' = [cli EXCEPT !.phase = "done", !.exit = 0,
                          !.mf = [cli.mf EXCEPT !.closeCalled = TRUE]]
    /\ UNCHANGED <<mf, last, ar, cu, fd, st, br>>

InitCLI ==
    CliInit /\ mf = Idle /\ last = Idle /\ ar = Idle /\ cu = Idle /\ fd = Idle
        /\ st = Idle /\ br = Idle

NextCLI == CliOpen \/ CliAddress \/ CliReturn

SpecCLI == InitCLI /\ [][NextCLI]_vars

\* input k failed: it did not parse as hex, or its Atos call returned an error
InputFailed(k) ==
    \/ ParseUint0(prependHexSign(cli.args[k])).err # "nil"
    \/ \E c \in 1..Len(cli.calls) : cli.calls[c].input = k /\ cli.calls[c].err # "nil"

FlagSlide ==
    IF cli.opts.s # <<>> THEN ParseUint0(prependHexSign(cli.opts.s)).v
    ELSE IF cli.opts.l # <<>>
    THEN Sub64(ParseUint0(prependHexSign(cli.opts.l)).v, VMAddr(cli.mf))
    ELSE Zero64

\* C13: in both front ends, without -offset, the address looked up in the DWARF
\* data for a hex input a is a minus the slide, the slide subtracted once
C13_SlideOnce ==
    (cli.phase \in {"loop", "done"} /\ ~cli.opts.offset) =>
        \A c \in 1..Len(cli.calls) :
            cli.calls[c].va =
                Sub64(ParseUint0(prependHexSign(cli.args[cli.calls[c].input])).v,
                      FlagSlide)

\* C13 in cmd/gatos alone
C13_SlideOnceGatos == cli.opts.fe = "gatos" => C13_SlideOnce

====
